---- MODULE Spec2Model ----
(***************************************************************************)
(* Model of notification.go (package apns): the Alert / APS / Payload      *)
(* serialisers, Payload.SetCustomValue and Notification.ToBinary, the     *)
(* encoder of the APNs binary provider frame (command 2).                  *)
(*                                                                         *)
(* Three specifications share the variables:                               *)
(*   SpecAPS      the caller assigns APS fields and calls                  *)
(*                APS.serializeForAPNS;                                    *)
(*   SpecPayload  the caller starts from NewPayload, calls SetCustomValue, *)
(*                assigns MDM and APS and calls Payload.serializeForAPNS;  *)
(*   Spec         the caller starts from NewNotification, assigns its      *)
(*                fields and calls ToBinary.                               *)
(***************************************************************************)
EXTENDS Integers, Sequences, FiniteSets, TLC

VARIABLES n, ret

vars == <<n, ret>>

(***************************************************************************)
(* Bounds of the model.                                                    *)
(***************************************************************************)
MaxTokChars == 3    \* longest enumerated DeviceToken string, in characters
MaxListLen == 1     \* longest []string given to LocArgs / URLArgs
MaxInt == 1         \* largest int given to Badge / ContentAvailable

(***************************************************************************)
(* Go values.                                                              *)
(***************************************************************************)
\* a nil pointer and a pointer to x
NilPtr == [isNil |-> TRUE, v |-> 0]
Ptr(x) == [isNil |-> FALSE, v |-> x]

\* a nil slice and a non-nil slice holding elems
NilSlice == [isNil |-> TRUE, elems |-> <<>>]
Slice(elems) == [isNil |-> FALSE, elems |-> elems]

\* an interface{} value: its dynamic type and its value
Iface(type, val) == [type |-> type, val |-> val]

\* map[string]interface{}
EmptyMap == [k \in {} |-> 0]
Put(m, k, v) == [x \in (DOMAIN m) \cup {k} |-> IF x = k THEN v ELSE m[x]]

\* error values
NilError == [isNil |-> TRUE, text |-> "", args |-> <<>>]
Error(text, args) == [isNil |-> FALSE, text |-> text, args |-> args]

(***************************************************************************)
(* Constants of notification.go.                                           *)
(***************************************************************************)
PriorityImmediate == 10
PriorityPowerConserve == 5
commandID == 2
deviceTokenItemID == 1
payloadItemID == 2
notificationIdentifierItemID == 3
expirationDateItemID == 4
priorityItemID == 5
deviceTokenItemLength == 32
notificationIdentifierItemLength == 4
expirationDateItemLength == 4
priorityItemLength == 1

(***************************************************************************)
(* Alert and APS.                                                          *)
(***************************************************************************)
\* the zero Alert
Alert == [Body |-> "", Title |-> "", Action |-> "", LocKey |-> "",
          LocArgs |-> NilSlice, ActionLocKey |-> "", LaunchImage |-> ""]

\* a mutant of isZero: the launch image left out of the test
isZeroNoLaunchImage(a) ==
    /\ a.Body = ""
    /\ a.LocKey = ""
    /\ Len(a.LocArgs.elems) = 0
    /\ a.ActionLocKey = ""

isZero(a) ==
    /\ a.Body = ""
    /\ a.LocKey = ""
    /\ Len(a.LocArgs.elems) = 0
    /\ a.ActionLocKey = ""
    /\ a.LaunchImage = ""

\* the zero APS
APS == [Alert |-> Alert, Badge |-> NilPtr, Sound |-> "",
        ContentAvailable |-> 0, URLArgs |-> NilSlice, Category |-> ""]

\* a mutant of APS.serializeForAPNS: the badge tested as an omitempty int
APS_serializeBadgeOmitZero(aps) ==
    LET d0 == EmptyMap
        d1 == IF ~isZero(aps.Alert) THEN Put(d0, "alert", Iface("Alert", aps.Alert)) ELSE d0
        d2 == IF ~aps.Badge.isNil /\ aps.Badge.v # 0
              THEN Put(d1, "badge", Iface("*int", aps.Badge)) ELSE d1
        d3 == IF aps.Sound # "" THEN Put(d2, "sound", Iface("string", aps.Sound)) ELSE d2
        d4 == IF aps.ContentAvailable # 0
              THEN Put(d3, "content-available", Iface("int", aps.ContentAvailable)) ELSE d3
        d5 == IF aps.Category # "" THEN Put(d4, "category", Iface("string", aps.Category)) ELSE d4
        d6 == IF ~aps.URLArgs.isNil /\ Len(aps.URLArgs.elems) # 0
              THEN Put(d5, "url-args", Iface("[]string", aps.URLArgs)) ELSE d5
    IN  d6

APS_serializeForAPNS(aps) ==
    LET d0 == EmptyMap
        d1 == IF ~isZero(aps.Alert) THEN Put(d0, "alert", Iface("Alert", aps.Alert)) ELSE d0
        d2 == IF ~aps.Badge.isNil THEN Put(d1, "badge", Iface("*int", aps.Badge)) ELSE d1
        d3 == IF aps.Sound # "" THEN Put(d2, "sound", Iface("string", aps.Sound)) ELSE d2
        d4 == IF aps.ContentAvailable # 0
              THEN Put(d3, "content-available", Iface("int", aps.ContentAvailable)) ELSE d3
        d5 == IF aps.Category # "" THEN Put(d4, "category", Iface("string", aps.Category)) ELSE d4
        d6 == IF ~aps.URLArgs.isNil /\ Len(aps.URLArgs.elems) # 0
              THEN Put(d5, "url-args", Iface("[]string", aps.URLArgs)) ELSE d5
    IN  d6

(***************************************************************************)
(* Payload and Notification.                                               *)
(***************************************************************************)
\* the zero Payload (CustomValues is a nil map)
Payload == [APS |-> APS, MDM |-> "", CustomValues |-> EmptyMap]

NewPayload == Ptr([APS |-> APS, MDM |-> "", CustomValues |-> EmptyMap])

NilPayload == [isNil |-> TRUE, v |-> Payload]

\* a nil *time.Time
NilTime == [isNil |-> TRUE, v |-> <<0, 0, 0, 0>>]

NewNotification ==
    [ID |-> "", DeviceToken |-> <<>>, Identifier |-> <<0, 0>>, Expiration |-> NilTime,
     Priority |-> 0, Payload |-> NewPayload]

(***************************************************************************)
(* Inputs the caller draws from.                                           *)
(***************************************************************************)
SeqsUpTo(S, k) == UNION {[1..m -> S] : m \in 0..k}

StringLists == {NilSlice} \cup {Slice(s) : s \in SeqsUpTo({"a"}, MaxListLen)}

BadgeInputs == {NilPtr} \cup {Ptr(i) : i \in 0..MaxInt}

(***************************************************************************)
(* The caller's steps on an APS.                                           *)
(***************************************************************************)
Assigned == [op |-> "assign"]

\* the Alerts one assignment to a field of a can produce
AlertAssignments(a) ==
    {[a EXCEPT !.Body = x] : x \in {"", "hi"}}
    \cup {[a EXCEPT !.Title = x] : x \in {"", "t"}}
    \cup {[a EXCEPT !.Action = x] : x \in {"", "ok"}}
    \cup {[a EXCEPT !.LocKey = x] : x \in {"", "LK"}}
    \cup {[a EXCEPT !.LocArgs = x] : x \in StringLists}
    \cup {[a EXCEPT !.ActionLocKey = x] : x \in {"", "ALK"}}
    \cup {[a EXCEPT !.LaunchImage = x] : x \in {"", "img"}}

AssignAlert ==
    \E a \in AlertAssignments(n.Payload.v.APS.Alert) :
        /\ n' = [n EXCEPT !.Payload.v.APS.Alert = a]
        /\ ret' = Assigned

AssignBadge ==
    \E b \in BadgeInputs :
        /\ n' = [n EXCEPT !.Payload.v.APS.Badge = b]
        /\ ret' = Assigned

AssignSound ==
    \E s \in {"", "default"} :
        /\ n' = [n EXCEPT !.Payload.v.APS.Sound = s]
        /\ ret' = Assigned

AssignContentAvailable ==
    \E c \in 0..MaxInt :
        /\ n' = [n EXCEPT !.Payload.v.APS.ContentAvailable = c]
        /\ ret' = Assigned

AssignURLArgs ==
    \E u \in StringLists :
        /\ n' = [n EXCEPT !.Payload.v.APS.URLArgs = u]
        /\ ret' = Assigned

AssignCategory ==
    \E c \in {"", "cat"} :
        /\ n' = [n EXCEPT !.Payload.v.APS.Category = c]
        /\ ret' = Assigned

CallAPSSerialize ==
    /\ ret' = [op |-> "APS.serializeForAPNS", recv |-> n.Payload.v.APS,
               data |-> APS_serializeForAPNS(n.Payload.v.APS)]
    /\ UNCHANGED n

Init ==
    /\ n = NewNotification
    /\ ret = [op |-> "new"]

NextAPS ==
    \/ AssignAlert
    \/ AssignBadge
    \/ AssignSound
    \/ AssignContentAvailable
    \/ AssignURLArgs
    \/ AssignCategory
    \/ CallAPSSerialize

SpecAPS == Init /\ [][NextAPS]_vars

(***************************************************************************)
(* Claims about APS.serializeForAPNS.                                      *)
(***************************************************************************)
APSReturned == ret.op = "APS.serializeForAPNS"

NonAlertKeys == {"badge", "sound", "content-available", "category", "url-args"}

\* C9: each non-alert key is in the map returned by APS.serializeForAPNS iff
\* its own field is not at its default: "badge" iff Badge is non-nil (and then
\* the value is the badge, 0 included), "sound" iff Sound is non-empty,
\* "content-available" iff ContentAvailable is non-zero, "category" iff
\* Category is non-empty, "url-args" iff URLArgs is a non-empty sequence; the
\* map holds no key other than these and "alert".
C9_NonAlertKeys ==
    APSReturned =>
        LET a == ret.recv
            d == ret.data
        IN  /\ ("badge" \in DOMAIN d) <=> ~a.Badge.isNil
            /\ "badge" \in DOMAIN d => d["badge"].val.v = a.Badge.v
            /\ ("sound" \in DOMAIN d) <=> a.Sound # ""
            /\ ("content-available" \in DOMAIN d) <=> a.ContentAvailable # 0
            /\ ("category" \in DOMAIN d) <=> a.Category # ""
            /\ ("url-args" \in DOMAIN d) <=> Len(a.URLArgs.elems) > 0
            /\ DOMAIN d \subseteq NonAlertKeys \cup {"alert"}

\* C9 witness: a badge pointing at 0 was serialised next to an unset sound
C9_Witness ==
    /\ APSReturned
    /\ ~ret.recv.Badge.isNil
    /\ ret.recv.Badge.v = 0
    /\ ret.recv.Sound = ""
    /\ ret.recv.Category # ""
    /\ "badge" \in DOMAIN ret.data

\* C10 as stated: "alert" is in the map iff one of body, localization key,
\* localization args, action-localization key is set; title, action and launch
\* image take no part.
C10_AsStated ==
    APSReturned =>
        LET a == ret.recv.Alert
        IN  ("alert" \in DOMAIN ret.data) <=>
                ~(/\ a.Body = ""
                  /\ a.LocKey = ""
                  /\ Len(a.LocArgs.elems) = 0
                  /\ a.ActionLocKey = "")

\* C10 amended: "alert" is in the map iff one of body, localization key,
\* localization args, action-localization key or launch image is set; only
\* title and action take no part.
C10_AlertKey ==
    APSReturned =>
        LET a == ret.recv.Alert
        IN  ("alert" \in DOMAIN ret.data) <=>
                ~(/\ a.Body = ""
                  /\ a.LocKey = ""
                  /\ Len(a.LocArgs.elems) = 0
                  /\ a.ActionLocKey = ""
                  /\ a.LaunchImage = "")

\* C10 witness: an Alert with only a launch image was serialised and emitted
C10_Witness ==
    /\ APSReturned
    /\ ret.recv.Alert = [Alert EXCEPT !.LaunchImage = "img"]
    /\ "alert" \in DOMAIN ret.data

(***************************************************************************)
(* Payload.serializeForAPNS and Payload.SetCustomValue.                    *)
(***************************************************************************)
\* a mutant of Payload.serializeForAPNS: "aps" added in MDM mode too
Payload_serializeAlwaysAPS(p) ==
    LET d0 == p.CustomValues
        d1 == IF p.MDM # "" THEN Put(d0, "mdm", Iface("string", p.MDM)) ELSE d0
    IN  Put(d1, "aps", Iface("map", APS_serializeForAPNS(p.APS)))

Payload_serializeForAPNS(p) ==
    LET d0 == p.CustomValues
    IN  IF p.MDM # ""
        THEN Put(d0, "mdm", Iface("string", p.MDM))
        ELSE Put(d0, "aps", Iface("map", APS_serializeForAPNS(p.APS)))

\* a mutant of SetCustomValue: the "aps" key is not refused
SetCustomValueUnguarded(p, key, value) ==
    [p |-> [p EXCEPT !.CustomValues = Put(p.CustomValues, key, value)],
     err |-> NilError]

\* the Payload after the call, and the error returned
SetCustomValue(p, key, value) ==
    IF key = "aps"
    THEN [p |-> p, err |-> Error("cannot assign a custom APS value in payload", <<>>)]
    ELSE [p |-> [p EXCEPT !.CustomValues = Put(p.CustomValues, key, value)],
          err |-> NilError]

(***************************************************************************)
(* The caller's steps on a Payload.                                        *)
(***************************************************************************)
CustomKeys == {"aps", "mdm", "k"}

CustomInputs == {Iface("string", "v"), Iface("int", MaxInt), Iface("chan", "c")}

APSInputs ==
    {APS, [APS EXCEPT !.Sound = "default"],
     [APS EXCEPT !.Alert.Body = "hi", !.Badge = Ptr(0)]}

CallSetCustomValue ==
    \E key \in CustomKeys, value \in CustomInputs :
        LET r == SetCustomValue(n.Payload.v, key, value)
        IN  /\ n' = [n EXCEPT !.Payload.v = r.p]
            /\ ret' = [op |-> "SetCustomValue", before |-> n.Payload.v,
                       key |-> key, value |-> value, err |-> r.err]

AssignMDM ==
    \E m \in {"", "X"} :
        /\ n' = [n EXCEPT !.Payload.v.MDM = m]
        /\ ret' = Assigned

AssignAPS ==
    \E a \in APSInputs :
        /\ n' = [n EXCEPT !.Payload.v.APS = a]
        /\ ret' = Assigned

CallPayloadSerialize ==
    /\ ret' = [op |-> "Payload.serializeForAPNS", recv |-> n.Payload.v,
               data |-> Payload_serializeForAPNS(n.Payload.v)]
    /\ UNCHANGED n

NextPayload ==
    \/ CallSetCustomValue
    \/ AssignMDM
    \/ AssignAPS
    \/ CallPayloadSerialize

SpecPayload == Init /\ [][NextPayload]_vars

(***************************************************************************)
(* Claims about the Payload.                                               *)
(***************************************************************************)
PayloadReturned == ret.op = "Payload.serializeForAPNS"

\* C6: the top-level object returned by Payload.serializeForAPNS holds exactly
\* one of the keys "mdm" and "aps", for every Payload the caller can build
\* from NewPayload with SetCustomValue and assignments to MDM and APS.
C6_ExactlyOneMode ==
    PayloadReturned =>
        ("mdm" \in DOMAIN ret.data) # ("aps" \in DOMAIN ret.data)

\* C7: when MDM is a non-empty string X, the top-level object has "mdm" with
\* the string value X and no "aps" key, whatever APS holds and whatever was
\* set with SetCustomValue (a custom value under "mdm" included).
C7_MDMDropsAPS ==
    (PayloadReturned /\ ret.recv.MDM # "") =>
        /\ "mdm" \in DOMAIN ret.data
        /\ ret.data["mdm"].type = "string"
        /\ ret.data["mdm"].val = ret.recv.MDM
        /\ "aps" \notin DOMAIN ret.data

\* C7 witness: MDM mode serialised over a non-default APS and a custom "mdm"
C7_Witness ==
    /\ PayloadReturned
    /\ ret.recv.MDM = "X"
    /\ ret.recv.APS # APS
    /\ "mdm" \in DOMAIN ret.recv.CustomValues
    /\ ret.data["mdm"].val = "X"

\* C8: SetCustomValue with key "aps" returns an error and leaves the Payload
\* as it was; with another key it returns nil and changes that one entry of
\* CustomValues only. So CustomValues never holds "aps", and with MDM empty
\* the serialised "aps" value is the map built from the APS field.
C8_ReservedKey ==
    /\ "aps" \notin DOMAIN n.Payload.v.CustomValues
    /\ ret.op = "SetCustomValue" =>
          IF ret.key = "aps"
          THEN /\ ~ret.err.isNil
               /\ n.Payload.v = ret.before
          ELSE /\ ret.err.isNil
               /\ n.Payload.v.MDM = ret.before.MDM
               /\ n.Payload.v.APS = ret.before.APS
               /\ DOMAIN n.Payload.v.CustomValues =
                      DOMAIN ret.before.CustomValues \cup {ret.key}
               /\ \A k \in DOMAIN n.Payload.v.CustomValues :
                      /\ n.Payload.v.CustomValues[k].type =
                            (IF k = ret.key THEN ret.value.type
                                            ELSE ret.before.CustomValues[k].type)
                      /\ n.Payload.v.CustomValues[k].val =
                            (IF k = ret.key THEN ret.value.val
                                            ELSE ret.before.CustomValues[k].val)
    /\ (PayloadReturned /\ ret.recv.MDM = "") =>
          /\ "aps" \in DOMAIN ret.data
          /\ ret.data["aps"].type = "map"
          /\ DOMAIN ret.data["aps"].val \subseteq NonAlertKeys \cup {"alert"}
          /\ ret.data["aps"].val = APS_serializeForAPNS(ret.recv.APS)
          /\ ("sound" \in DOMAIN ret.data["aps"].val) <=> ret.recv.APS.Sound # ""
          /\ ("badge" \in DOMAIN ret.data["aps"].val) <=> ~ret.recv.APS.Badge.isNil

\* C8 witness: SetCustomValue("aps", ...) was refused on a Payload that
\* already held a custom value
C8_Witness ==
    /\ ret.op = "SetCustomValue"
    /\ ret.key = "aps"
    /\ ~ret.err.isNil
    /\ "k" \in DOMAIN ret.before.CustomValues
    /\ n.Payload.v = ret.before

(***************************************************************************)
(* json.Marshal of the values the serialisers build.                       *)
(***************************************************************************)
\* the bytes of the strings the model uses (none needs a JSON escape)
utf8 ==
    ("" :> <<>>) @@
    ("aps" :> <<97, 112, 115>>) @@
    ("mdm" :> <<109, 100, 109>>) @@
    ("k" :> <<107>>) @@
    ("alert" :> <<97, 108, 101, 114, 116>>) @@
    ("badge" :> <<98, 97, 100, 103, 101>>) @@
    ("sound" :> <<115, 111, 117, 110, 100>>) @@
    ("content-available" :> <<99, 111, 110, 116, 101, 110, 116, 45, 97, 118, 97, 105, 108, 97, 98, 108, 101>>) @@
    ("category" :> <<99, 97, 116, 101, 103, 111, 114, 121>>) @@
    ("url-args" :> <<117, 114, 108, 45, 97, 114, 103, 115>>) @@
    ("body" :> <<98, 111, 100, 121>>) @@
    ("title" :> <<116, 105, 116, 108, 101>>) @@
    ("action" :> <<97, 99, 116, 105, 111, 110>>) @@
    ("loc-key" :> <<108, 111, 99, 45, 107, 101, 121>>) @@
    ("loc-args" :> <<108, 111, 99, 45, 97, 114, 103, 115>>) @@
    ("action-loc-key" :> <<97, 99, 116, 105, 111, 110, 45, 108, 111, 99, 45, 107, 101, 121>>) @@
    ("launch-image" :> <<108, 97, 117, 110, 99, 104, 45, 105, 109, 97, 103, 101>>) @@
    ("hi" :> <<104, 105>>) @@
    ("t" :> <<116>>) @@
    ("ok" :> <<111, 107>>) @@
    ("LK" :> <<76, 75>>) @@
    ("a" :> <<97>>) @@
    ("ALK" :> <<65, 76, 75>>) @@
    ("img" :> <<105, 109, 103>>) @@
    ("default" :> <<100, 101, 102, 97, 117, 108, 116>>) @@
    ("cat" :> <<99, 97, 116>>) @@
    ("X" :> <<88>>) @@
    ("v" :> <<118>>) @@
    ("null" :> <<110, 117, 108, 108>>)

RECURSIVE Concat(_)
Concat(ss) == IF ss = <<>> THEN <<>> ELSE Head(ss) \o Concat(Tail(ss))

RECURSIVE JoinComma(_)
JoinComma(ss) ==
    IF ss = <<>> THEN <<>>
    ELSE IF Len(ss) = 1 THEN Head(ss)
    ELSE Head(ss) \o <<44>> \o JoinComma(Tail(ss))

\* byte-wise order of two strings
RECURSIVE BytesLess(_, _)
BytesLess(a, b) ==
    IF b = <<>> THEN FALSE
    ELSE IF a = <<>> THEN TRUE
    ELSE IF Head(a) # Head(b) THEN Head(a) < Head(b)
    ELSE BytesLess(Tail(a), Tail(b))

\* the keys of a map in the order json.Marshal writes them
RECURSIVE SortedKeys(_)
SortedKeys(S) ==
    IF S = {} THEN <<>>
    ELSE LET m == CHOOSE x \in S : \A y \in S \ {x} : BytesLess(utf8[x], utf8[y])
         IN  <<m>> \o SortedKeys(S \ {m})

RECURSIVE Digits(_)
Digits(i) == IF i < 10 THEN <<48 + i>> ELSE Digits(i \div 10) \o <<48 + (i % 10)>>

Itoa(i) == IF i < 0 THEN <<45>> \o Digits(-i) ELSE Digits(i)

encString(s) == <<34>> \o utf8[s] \o <<34>>

encStringSlice(sl) ==
    IF sl.isNil THEN utf8["null"]
    ELSE <<91>> \o JoinComma([i \in 1..Len(sl.elems) |-> encString(sl.elems[i])]) \o <<93>>

encMember(key, bytes) == encString(key) \o <<58>> \o bytes

\* the Alert struct: its fields in declaration order, each under omitempty
encAlert(a) ==
    LET fields ==
            <<IF a.Body # "" THEN <<encMember("body", encString(a.Body))>> ELSE <<>>,
              IF a.Title # "" THEN <<encMember("title", encString(a.Title))>> ELSE <<>>,
              IF a.Action # "" THEN <<encMember("action", encString(a.Action))>> ELSE <<>>,
              IF a.LocKey # "" THEN <<encMember("loc-key", encString(a.LocKey))>> ELSE <<>>,
              IF Len(a.LocArgs.elems) # 0
                  THEN <<encMember("loc-args", encStringSlice(a.LocArgs))>> ELSE <<>>,
              IF a.ActionLocKey # ""
                  THEN <<encMember("action-loc-key", encString(a.ActionLocKey))>> ELSE <<>>,
              IF a.LaunchImage # ""
                  THEN <<encMember("launch-image", encString(a.LaunchImage))>> ELSE <<>> >>
    IN  <<123>> \o JoinComma(Concat(fields)) \o <<125>>

RECURSIVE encValue(_)
encValue(x) ==
    CASE x.type = "string" -> encString(x.val)
      [] x.type = "int" -> Itoa(x.val)
      [] x.type = "*int" -> IF x.val.isNil THEN utf8["null"] ELSE Itoa(x.val.v)
      [] x.type = "[]string" -> encStringSlice(x.val)
      [] x.type = "Alert" -> encAlert(x.val)
      [] x.type = "map" ->
            LET keys == SortedKeys(DOMAIN x.val)
            IN  <<123>>
                \o JoinComma([i \in 1..Len(keys) |-> encMember(keys[i], encValue(x.val[keys[i]]))])
                \o <<125>>

\* json.Marshal refuses a channel, at any depth
RECURSIVE Marshalable(_)
Marshalable(x) ==
    CASE x.type = "chan" -> FALSE
      [] x.type = "map" -> \A k \in DOMAIN x.val : Marshalable(x.val[k])
      [] OTHER -> TRUE

json_Marshal(m) ==
    IF Marshalable(Iface("map", m))
    THEN [bytes |-> encValue(Iface("map", m)), err |-> NilError]
    ELSE [bytes |-> <<>>, err |-> Error("json: unsupported type: %s", <<"chan int">>)]

Payload_MarshalJSONForAPNS(p) == json_Marshal(Payload_serializeForAPNS(p))

(***************************************************************************)
(* hex.DecodeString and the big-endian writers.                            *)
(***************************************************************************)
\* the value of a hexadecimal digit, 255 for any other byte
fromHexChar(c) ==
    IF c >= 48 /\ c <= 57 THEN c - 48
    ELSE IF c >= 97 /\ c <= 102 THEN c - 97 + 10
    ELSE IF c >= 65 /\ c <= 70 THEN c - 65 + 10
    ELSE 255

InvalidByteError(c) == Error("encoding/hex: invalid byte: %#U", <<c>>)
ErrLength == Error("encoding/hex: odd length hex string", <<>>)

\* hex.Decode from pair i on, with the bytes decoded so far
RECURSIVE hex_Decode(_, _, _)
hex_Decode(src, i, acc) ==
    LET j == 2 * i
    IN  IF j <= Len(src)
        THEN LET a == fromHexChar(src[j - 1])
                 q == fromHexChar(src[j])
             IN  IF a > 15 THEN [bytes |-> acc, err |-> InvalidByteError(src[j - 1])]
                 ELSE IF q > 15 THEN [bytes |-> acc, err |-> InvalidByteError(src[j])]
                 ELSE hex_Decode(src, i + 1, Append(acc, a * 16 + q))
        ELSE IF Len(src) % 2 = 1
             THEN IF fromHexChar(src[j - 1]) > 15
                  THEN [bytes |-> acc, err |-> InvalidByteError(src[j - 1])]
                  ELSE [bytes |-> acc, err |-> ErrLength]
             ELSE [bytes |-> acc, err |-> NilError]

\* the bytes decoded before the first error, and the error
hex_DecodeString(s) == hex_Decode(s, 1, <<>>)

\* Integers of 32 and 64 bits are held as big-endian sequences of 16-bit
\* limbs, a uint32 as <<hi, lo>> and an int64 as four limbs.
U32(hi, lo) == <<hi, lo>>

\* uint8(x) and uint16(x) of an int
uint8(x) == x % 256
uint16(x) == x % 65536

\* uint32(x) of an int64: its two low limbs
uint32(x) == SubSeq(x, Len(x) - 1, Len(x))

\* uint32(x) of a non-negative int below 2^31, as limbs
uint32OfInt(x) == U32(x \div 65536, x % 65536)

\* binary.Write(buf, binary.BigEndian, v) for the three widths
WriteU8(x) == <<x>>
WriteU16(x) == <<x \div 256, x % 256>>
WriteU32(x) == WriteU16(x[1]) \o WriteU16(x[2])

(***************************************************************************)
(* Notification.ToBinary.                                                  *)
(***************************************************************************)
\* j: the payload JSON, empty for a nil Payload or a failed Marshal
payloadJSON(nn) ==
    IF nn.Payload.isNil THEN <<>> ELSE Payload_MarshalJSONForAPNS(nn.Payload.v).bytes

tokenItem(binTok) ==
    WriteU8(uint8(deviceTokenItemID)) \o WriteU16(uint16(deviceTokenItemLength)) \o binTok

payloadItem(j) == WriteU8(uint8(payloadItemID)) \o WriteU16(uint16(Len(j))) \o j

identifierItem(nn) ==
    WriteU8(uint8(notificationIdentifierItemID))
    \o WriteU16(uint16(notificationIdentifierItemLength))
    \o WriteU32(nn.Identifier)

expirationItem(nn) ==
    WriteU8(uint8(expirationDateItemID)) \o WriteU16(uint16(expirationDateItemLength))
    \o (IF nn.Expiration.isNil THEN WriteU32(uint32OfInt(0))
                               ELSE WriteU32(uint32(nn.Expiration.v)))

priorityItem(nn) ==
    WriteU8(uint8(priorityItemID)) \o WriteU16(uint16(priorityItemLength))
    \o WriteU8(uint8(nn.Priority))

\* a mutant of itemBuffer: the payload written before the token
itemBufferPayloadFirst(nn, binTok, j) ==
    payloadItem(j) \o tokenItem(binTok) \o identifierItem(nn) \o expirationItem(nn)
    \o priorityItem(nn)

\* buf: the five items in the order they are written
itemBuffer(nn, binTok, j) ==
    tokenItem(binTok) \o payloadItem(j) \o identifierItem(nn) \o expirationItem(nn)
    \o priorityItem(nn)

\* a mutant of frame: the length counts the 5-byte header too
frameLengthWithHeader(buf) ==
    WriteU8(uint8(commandID)) \o WriteU32(uint32OfInt(Len(buf) + 5)) \o buf

\* framebuf: the command, the length of buf, buf
frame(buf) == WriteU8(uint8(commandID)) \o WriteU32(uint32OfInt(Len(buf))) \o buf

\* a mutant of ToBinary: the bytes decoded so far returned with the error
ToBinaryPartial(nn) ==
    LET dec == hex_DecodeString(nn.DeviceToken)
    IN  IF ~dec.err.isNil
        THEN [bytes |-> tokenItem(dec.bytes),
              err |-> Error("convert token to hex error: %s", <<dec.err>>)]
        ELSE [bytes |-> frame(itemBuffer(nn, dec.bytes, payloadJSON(nn))),
              err |-> NilError]

\* the bytes and the error ToBinary returns
ToBinary(nn) ==
    LET dec == hex_DecodeString(nn.DeviceToken)
    IN  IF ~dec.err.isNil
        THEN [bytes |-> <<>>,
              err |-> Error("convert token to hex error: %s", <<dec.err>>)]
        ELSE [bytes |-> frame(itemBuffer(nn, dec.bytes, payloadJSON(nn))),
              err |-> NilError]

(***************************************************************************)
(* The caller's steps on a Notification.                                   *)
(***************************************************************************)
\* '9', 'a' and 'g', the first byte past the hexadecimal digits
TokenChars == {57, 97, 103}

\* a token of deviceTokenItemLength bytes: the pair c1 c2 repeated
FullToken(c1, c2) ==
    [i \in 1..(2 * deviceTokenItemLength) |-> IF i % 2 = 1 THEN c1 ELSE c2]

TokenInputs ==
    SeqsUpTo(TokenChars, MaxTokChars) \cup {FullToken(97, 57), FullToken(70, 70)}

\* 0, 0x12345678 and 0xFFFFFFFF
IdentifierInputs == {U32(0, 0), U32(4660, 22136), U32(65535, 65535)}

\* Unix seconds of the time pointed at: 0, 1700000000 (0x6553F100) and
\* 2^32 + 1, which does not fit in 32 bits
ExpirationInputs ==
    {NilTime, Ptr(<<0, 0, 0, 0>>), Ptr(<<0, 0, 25939, 61696>>), Ptr(<<0, 1, 0, 1>>)}

PriorityInputs == {PriorityPowerConserve, PriorityImmediate, 261}

\* Payloads the caller can build from NewPayload, and the nil pointer
PayloadInputs ==
    {NilPayload,
     NewPayload,
     Ptr(SetCustomValue([NewPayload.v EXCEPT !.MDM = "X"], "k", Iface("int", MaxInt)).p),
     Ptr(SetCustomValue([NewPayload.v EXCEPT
                            !.APS.Alert.Body = "hi", !.APS.Badge = Ptr(0),
                            !.APS.URLArgs = Slice(<<"a">>)],
                        "k", Iface("string", "v")).p),
     Ptr(SetCustomValue(NewPayload.v, "k", Iface("chan", "c")).p)}

AssignDeviceToken ==
    \E t \in TokenInputs :
        /\ n' = [n EXCEPT !.DeviceToken = t]
        /\ ret' = Assigned

AssignIdentifier ==
    \E i \in IdentifierInputs :
        /\ n' = [n EXCEPT !.Identifier = i]
        /\ ret' = Assigned

AssignExpiration ==
    \E e \in ExpirationInputs :
        /\ n' = [n EXCEPT !.Expiration = e]
        /\ ret' = Assigned

AssignPriority ==
    \E p \in PriorityInputs :
        /\ n' = [n EXCEPT !.Priority = p]
        /\ ret' = Assigned

AssignPayload ==
    \E p \in PayloadInputs :
        /\ n' = [n EXCEPT !.Payload = p]
        /\ ret' = Assigned

CallToBinary ==
    LET r == ToBinary(n)
    IN  /\ ret' = [op |-> "ToBinary", recv |-> n, bytes |-> r.bytes, err |-> r.err]
        /\ UNCHANGED n

Next ==
    \/ AssignDeviceToken
    \/ AssignIdentifier
    \/ AssignExpiration
    \/ AssignPriority
    \/ AssignPayload
    \/ CallToBinary

Spec == Init /\ [][Next]_vars

(***************************************************************************)
(* Claims about Notification.ToBinary.                                     *)
(***************************************************************************)
ToBinaryReturned == ret.op = "ToBinary"

ToBinaryOK == ToBinaryReturned /\ ret.err.isNil

HexDigits == (48..57) \cup (65..70) \cup (97..102)

\* s is valid hexadecimal: an even number of hexadecimal digits
IsHex(s) == Len(s) % 2 = 0 /\ \A i \in 1..Len(s) : s[i] \in HexDigits

\* the big-endian number in the 2 (4) bytes of b from position i on
BE16(b, i) == b[i] * 256 + b[i + 1]
BE32(b, i) == BE16(b, i) * 65536 + BE16(b, i + 2)

\* the item buffer of a frame: what follows the 5-byte header
ItemsOf(b) == SubSeq(b, 6, Len(b))

\* C1: for a DeviceToken of valid hexadecimal, ToBinary succeeds and its frame
\* starts with the command byte 2 and a 4-byte big-endian length equal to the
\* number of bytes that follow it.
C1_FrameLength ==
    (ToBinaryReturned /\ IsHex(ret.recv.DeviceToken)) =>
        /\ ret.err.isNil
        /\ Len(ret.bytes) >= 5
        /\ ret.bytes[1] = 2
        /\ BE32(ret.bytes, 2) = Len(ret.bytes) - 5

\* C1 witness: a frame with a one-byte token and a non-empty payload
C1_Witness ==
    /\ ToBinaryOK
    /\ Len(ret.recv.DeviceToken) = 2
    /\ ~ret.recv.Payload.isNil
    /\ BE32(ret.bytes, 2) > 24 + 1

\* C2: the item buffer of every frame ToBinary returns holds five items, with
\* the IDs 1, 2, 3, 4, 5 in this order: the token item with the decoded token
\* as its value, the payload item over the rest, then the identifier (4
\* bytes), the expiration (4 bytes) and the priority (1 byte).
C2_ItemOrder ==
    ToBinaryOK =>
        LET buf == ItemsOf(ret.bytes)
            tl == Len(ret.recv.DeviceToken) \div 2
            jl == Len(buf) - tl - 24
            o2 == 3 + tl + 1
            o3 == o2 + 3 + jl
            o4 == o3 + 7
            o5 == o4 + 7
        IN  /\ jl >= 0
            /\ buf[1] = 1
            /\ buf[o2] = 2 /\ BE16(buf, o2 + 1) = jl
            /\ buf[o3] = 3 /\ BE16(buf, o3 + 1) = 4
            /\ buf[o4] = 4 /\ BE16(buf, o4 + 1) = 4
            /\ buf[o5] = 5 /\ BE16(buf, o5 + 1) = 1
            /\ Len(buf) = o5 + 3

\* C2 witness: a frame for an empty token, a nil Payload and a nil Expiration
C2_Witness ==
    /\ ToBinaryOK
    /\ ret.recv.DeviceToken = <<>>
    /\ ret.recv.Payload.isNil
    /\ ret.recv.Expiration.isNil
    /\ Len(ret.bytes) = 5 + 24

\* C3: the 2-byte length of the device-token item equals the number of bytes
\* the token decodes to, and the item's value is those bytes, for a valid
\* hexadecimal token of any length.
C3_TokenItemLength ==
    ToBinaryOK =>
        LET buf == ItemsOf(ret.bytes)
            tok == hex_DecodeString(ret.recv.DeviceToken).bytes
        IN  /\ buf[1] = 1
            /\ BE16(buf, 2) = Len(tok)
            /\ SubSeq(buf, 4, 3 + Len(tok)) = tok

\* the items read off b one after the other: 1-byte ID, 2-byte big-endian
\* length, then that many value bytes
RECURSIVE ParseItems(_)
ParseItems(b) ==
    IF b = <<>> THEN [ok |-> TRUE, items |-> <<>>]
    ELSE IF Len(b) < 3 \/ Len(b) < 3 + BE16(b, 2) THEN [ok |-> FALSE, items |-> <<>>]
    ELSE LET l == BE16(b, 2)
             rest == ParseItems(SubSeq(b, 4 + l, Len(b)))
         IN  [ok |-> rest.ok,
              items |-> <<[id |-> b[1], value |-> SubSeq(b, 4, 3 + l)]>> \o rest.items]

\* the inputs come back from the parsed items: the decoded token, the payload
\* JSON, the identifier, the expiration seconds and the priority as they fit
\* their 4, 4 and 1 bytes
RoundTrips(recv, bytes) ==
    LET r == ParseItems(ItemsOf(bytes))
        exp == IF recv.Expiration.isNil THEN <<0, 0>>
               ELSE SubSeq(recv.Expiration.v, 3, 4)
    IN  /\ r.ok
        /\ Len(r.items) = 5
        /\ [i \in 1..5 |-> r.items[i].id] = <<1, 2, 3, 4, 5>>
        /\ r.items[1].value = hex_DecodeString(recv.DeviceToken).bytes
        /\ r.items[2].value = payloadJSON(recv)
        /\ Len(r.items[3].value) = 4
        /\ <<BE16(r.items[3].value, 1), BE16(r.items[3].value, 3)>> = recv.Identifier
        /\ Len(r.items[4].value) = 4
        /\ <<BE16(r.items[4].value, 1), BE16(r.items[4].value, 3)>> = exp
        /\ r.items[5].value = <<recv.Priority % 256>>

\* C4: every frame ToBinary returns parses item by item (ID, length, value)
\* to the end of the item buffer and gives back the decoded token, the payload
\* JSON, the identifier, the expiration seconds and the priority byte.
C4_RoundTrip == ToBinaryOK => RoundTrips(ret.recv, ret.bytes)

\* the round trip of the frames whose token has deviceTokenItemLength bytes
RoundTripFullToken ==
    (ToBinaryOK /\ Len(ret.recv.DeviceToken) = 2 * deviceTokenItemLength) =>
        RoundTrips(ret.recv, ret.bytes)

\* C5: a DeviceToken that is not valid hexadecimal makes ToBinary return an
\* error and no bytes; an error never comes with bytes; a nil error comes
\* with a whole frame, from the command byte to the priority item.
C5_ErrorOrFrame ==
    ToBinaryReturned =>
        /\ ~IsHex(ret.recv.DeviceToken) => (~ret.err.isNil /\ Len(ret.bytes) = 0)
        /\ ~ret.err.isNil => ret.bytes = <<>>
        /\ ret.err.isNil =>
              /\ Len(ret.bytes) >= 5 + 24
              /\ ret.bytes[1] = 2
              /\ SubSeq(ret.bytes, Len(ret.bytes) - 3, Len(ret.bytes))
                    = <<5, 0, 1, ret.recv.Priority % 256>>

\* C5 witness: ToBinary failed on a token whose first pair of digits decodes
C5_Witness ==
    /\ ToBinaryReturned
    /\ ~ret.err.isNil
    /\ Len(ret.recv.DeviceToken) = 3
    /\ ret.recv.DeviceToken[1] \in HexDigits
    /\ ret.recv.DeviceToken[2] \in HexDigits
    /\ ret.bytes = <<>>

====
